---------------------------- MODULE Spec2Model ----------------------------
(***************************************************************************)
(* A model of umm_malloc (src/umm_malloc.c): the heap is the array         *)
(* umm_heap of UMM_NUMBLOCKS cells of 8 bytes.  Every field of a cell is a *)
(* 16-bit word at a 2-byte aligned offset and every copy the code makes    *)
(* (memcpy, memmove) starts at a multiple of 4 bytes and has a length that *)
(* is a multiple of 4 bytes, so the heap is modelled as an array of 16-bit *)
(* words, four per cell (the sequence umm_heap, indexed from 1):           *)
(*     word 4c+1 = header.used.next  (UMM_NBLOCK(c))                        *)
(*     word 4c+2 = header.used.prev  (UMM_PBLOCK(c))                        *)
(*     word 4c+3 = body.free.next    (UMM_NFREE(c)) or body.data[0..1]      *)
(*     word 4c+4 = body.free.prev    (UMM_PFREE(c)) or body.data[2..3]      *)
(* A pointer is its byte offset from &umm_heap[0]; NULL is a value apart.  *)
(* The search policy is UMM_BEST_FIT, the default of the build.            *)
(*                                                                         *)
(* Five specifications share the heap operators:                           *)
(*   Spec      one caller, every call a single step, sizes up to MaxBlocks *)
(*             cells;                                                      *)
(*   HeapSpec  the same without umm_info, which writes no word of the heap;*)
(*   TaskSpec  two tasks, every call split where the code enters or leaves *)
(*             the critical section or calls another public function;      *)
(*   SizeSpec  one caller, sizes of the whole range of a 32 bit size_t;    *)
(*   BlocksSpec umm_blocks alone, applied to every size up to MaxSize.     *)
(***************************************************************************)
EXTENDS Integers, Sequences, FiniteSets, TLC

\* ------------------------------------------------------------------ bounds
\* number of cells of the heap (sizeof(umm_heap)/sizeof(umm_block))
UMM_NUMBLOCKS == 7
\* largest cell count a caller asks for
MaxBlocks == 3
\* number of calls the caller makes
MaxCalls == 5
\* number of calls the two tasks make together
MaxTaskCalls == 3
\* number of calls made with sizes of the whole range of size_t
MaxSizeCalls == 2
\* the largest size handed to umm_blocks on its own (BlocksSpec)
MaxSize == 128

\* --------------------------------------------------------- program constants
UMM_FREELIST_MASK == 32768
UMM_BLOCKNO_MASK == 32767
\* sizeof(umm_block)
BlockBytes == 8
\* sizeof(((umm_block *)0)->body)
BodyBytes == 4
\* sizeof(((umm_block *)0)->header)
HeaderBytes == 4
\* range of unsigned short int
U16 == 65536
\* initial value of bestSize
BestSizeInit == 32767

NULL == -1

\* request sizes in bytes: 0, the largest size that umm_blocks maps to one
\* cell, and for each larger cell count k the smallest size mapped to k
SizeLo(k) == IF k = 1 THEN 1 ELSE BlockBytes * (k - 1) - BodyBytes + 1
SizeHi(k) == BlockBytes * k - HeaderBytes
Sizes == {0, SizeHi(1)} \cup {SizeLo(k) : k \in 2..MaxBlocks}

Cells == 0..(UMM_NUMBLOCKS - 1)
Words == 1..(4 * UMM_NUMBLOCKS)

\* ------------------------------------------------------------ link accessors
NBidx(b) == 4 * b + 1
PBidx(b) == 4 * b + 2
NFidx(b) == 4 * b + 3
PFidx(b) == 4 * b + 4

UMM_NBLOCK(h, b) == h[NBidx(b)]
UMM_PBLOCK(h, b) == h[PBidx(b)]
UMM_NFREE(h, b) == h[NFidx(b)]
UMM_PFREE(h, b) == h[PFidx(b)]
\* the address of the header of the block instead of the address of its body
UMM_DATA_Header(b) == BlockBytes * b

\* &UMM_DATA(b) and &UMM_BLOCK(b) as byte offsets from the heap base
UMM_DATA(b) == BlockBytes * b + HeaderBytes
UMM_BLOCK(b) == BlockBytes * b

Put(h, i, v) == [h EXCEPT ![i] = v]

\* x & UMM_BLOCKNO_MASK, x & UMM_FREELIST_MASK (as a boolean), x | freemask,
\* x & ~UMM_FREELIST_MASK on 16-bit words
BlockNo(x) == x % UMM_FREELIST_MASK
IsFreeBit(x) == (x \div UMM_FREELIST_MASK) % 2 = 1
OrMask(x, freemask) == IF freemask = 0 THEN x ELSE BlockNo(x) + UMM_FREELIST_MASK
Trunc16(x) == x % U16

\* the value of v handed to Op: v is evaluated once, as a C local is
Bind(v, Op(_)) == CHOOSE r \in {Op(x) : x \in {v}} : TRUE

\* the word of the heap at byte offset ptr
WordOf(ptr) == ptr \div 2 + 1

\* c = (ptr - &umm_heap[0]) / sizeof(umm_block), truncated division
BlockOf(ptr) == Trunc16(ptr \div BlockBytes)

\* mutant of memmove: copies word by word from the last word down, which
\* is not overlap-safe when the destination lies below the source
RECURSIVE CopyDownFrom(_, _, _, _)
CopyDownFrom(h, d, s, i) ==
    IF i < 0 THEN h ELSE CopyDownFrom(Put(h, d + i, h[s + i]), d, s, i - 1)
memmove_backward(h, dst, src, n) ==
    CopyDownFrom(h, WordOf(dst), WordOf(src), (n \div 2) - 1)

\* memmove(dst, src, n): n bytes, overlap-safe (all reads precede all writes)
memmove(h, dst, src, n) ==
    Bind(WordOf(dst), LAMBDA d :
    Bind(WordOf(src), LAMBDA s :
    Bind(n \div 2, LAMBDA k :
    [i \in DOMAIN h |-> IF i >= d /\ i < d + k THEN h[s + (i - d)] ELSE h[i]])))

\* memcpy(dst, src, n): the regions the code passes never overlap
memcpy(h, dst, src, n) == memmove(h, dst, src, n)

\* ---------------------------------------------------------------- umm_blocks
\* umm_blocks without the 1 taken off the size before the division
umm_blocks_NoMinusOne(size) ==
    IF size <= BodyBytes THEN 1
    ELSE Trunc16(2 + ((size - BodyBytes) \div BlockBytes))

umm_blocks(size) ==
    IF size <= BodyBytes THEN 1
    ELSE Trunc16(2 + ((size - (1 + BodyBytes)) \div BlockBytes))

\* umm_make_new_block that leaves the back link of the following block as
\* it was
umm_make_new_block_NoBackLink(h, c, blocks, freemask) ==
    Bind(Trunc16(c + blocks), LAMBDA s :
    Bind(Put(h, NBidx(s), BlockNo(UMM_NBLOCK(h, c))), LAMBDA h1 :
    Bind(Put(h1, PBidx(s), c), LAMBDA h2 :
    Put(h2, NBidx(c), OrMask(s, freemask)))))

\* -------------------------------------------------------- umm_make_new_block
umm_make_new_block(h, c, blocks, freemask) ==
    Bind(Trunc16(c + blocks), LAMBDA s :
    Bind(Put(h, NBidx(s), BlockNo(UMM_NBLOCK(h, c))), LAMBDA h1 :
    Bind(Put(h1, PBidx(s), c), LAMBDA h2 :
    Bind(Put(h2, PBidx(BlockNo(UMM_NBLOCK(h2, c))), s), LAMBDA h3 :
    Put(h3, NBidx(c), OrMask(s, freemask))))))

\* umm_disconnect_from_free_list that leaves the forward link of the
\* predecessor on the block taken off
umm_disconnect_from_free_list_KeepForward(h, c) ==
    Bind(Put(h, PFidx(UMM_NFREE(h, c)), UMM_PFREE(h, c)), LAMBDA h2 :
    Put(h2, NBidx(c), BlockNo(UMM_NBLOCK(h2, c))))

\* umm_disconnect_from_free_list that leaves the free flag set
umm_disconnect_from_free_list_KeepFlag(h, c) ==
    Bind(Put(h, NFidx(UMM_PFREE(h, c)), UMM_NFREE(h, c)), LAMBDA h1 :
    Put(h1, PFidx(UMM_NFREE(h1, c)), UMM_PFREE(h1, c)))

\* --------------------------------------------- umm_disconnect_from_free_list
umm_disconnect_from_free_list(h, c) ==
    Bind(Put(h, NFidx(UMM_PFREE(h, c)), UMM_NFREE(h, c)), LAMBDA h1 :
    Bind(Put(h1, PFidx(UMM_NFREE(h1, c)), UMM_PFREE(h1, c)), LAMBDA h2 :
    Put(h2, NBidx(c), BlockNo(UMM_NBLOCK(h2, c)))))

\* --------------------------------------------------------- umm_assimilate_up
\* mutant of umm_assimilate_up: never merges
umm_assimilate_up_Never(h, c) == h

umm_assimilate_up(h, c) ==
    IF IsFreeBit(UMM_NBLOCK(h, UMM_NBLOCK(h, c)))
    THEN Bind(umm_disconnect_from_free_list(h, UMM_NBLOCK(h, c)), LAMBDA h1 :
         Bind(Put(h1, PBidx(BlockNo(UMM_NBLOCK(h1, UMM_NBLOCK(h1, c)))), c), LAMBDA h2 :
         Put(h2, NBidx(c), BlockNo(UMM_NBLOCK(h2, UMM_NBLOCK(h2, c))))))
    ELSE h

\* mutant of umm_assimilate_down: freemask is not ORed into the next index
umm_assimilate_down_NoMask(h, c, freemask) ==
    Bind(Put(h, NBidx(UMM_PBLOCK(h, c)), UMM_NBLOCK(h, c)), LAMBDA h1 :
    Bind(Put(h1, PBidx(UMM_NBLOCK(h1, c)), UMM_PBLOCK(h1, c)), LAMBDA h2 :
    [heap |-> h2, c |-> UMM_PBLOCK(h2, c)]))

\* ------------------------------------------------------- umm_assimilate_down
\* the result is the heap and the index returned
umm_assimilate_down(h, c, freemask) ==
    Bind(Put(h, NBidx(UMM_PBLOCK(h, c)), OrMask(UMM_NBLOCK(h, c), freemask)), LAMBDA h1 :
    Bind(Put(h1, PBidx(UMM_NBLOCK(h1, c)), UMM_PBLOCK(h1, c)), LAMBDA h2 :
    [heap |-> h2, c |-> UMM_PBLOCK(h2, c)]))

\* umm_free that does not merge the block with a free block after it
umm_free_NoUp(h, ptr) ==
    IF ptr = NULL THEN h
    ELSE Bind(BlockOf(ptr), LAMBDA c :
         IF IsFreeBit(UMM_NBLOCK(h, UMM_PBLOCK(h, c)))
         THEN umm_assimilate_down(h, c, UMM_FREELIST_MASK).heap
         ELSE Bind(Put(h, PFidx(UMM_NFREE(h, 0)), c), LAMBDA h2 :
              Bind(Put(h2, NFidx(c), UMM_NFREE(h2, 0)), LAMBDA h3 :
              Bind(Put(h3, PFidx(c), 0), LAMBDA h4 :
              Bind(Put(h4, NFidx(0), c), LAMBDA h5 :
              Put(h5, NBidx(c), OrMask(UMM_NBLOCK(h5, c), UMM_FREELIST_MASK)))))))

\* umm_free that makes the block the head of the free list before it reads
\* the old head: the block becomes its own next free block
umm_free_LinkAfterHead(h, ptr) ==
    IF ptr = NULL THEN h
    ELSE Bind(BlockOf(ptr), LAMBDA c :
         Bind(umm_assimilate_up(h, c), LAMBDA h1 :
         IF IsFreeBit(UMM_NBLOCK(h1, UMM_PBLOCK(h1, c)))
         THEN umm_assimilate_down(h1, c, UMM_FREELIST_MASK).heap
         ELSE Bind(Put(h1, PFidx(UMM_NFREE(h1, 0)), c), LAMBDA h2 :
              Bind(Put(h2, NFidx(0), c), LAMBDA h3 :
              Bind(Put(h3, NFidx(c), UMM_NFREE(h3, 0)), LAMBDA h4 :
              Bind(Put(h4, PFidx(c), 0), LAMBDA h5 :
              Put(h5, NBidx(c), OrMask(UMM_NBLOCK(h5, c), UMM_FREELIST_MASK))))))))

\* umm_free that puts the block on the free list without merging it with a
\* free block before it
umm_free_NoDown(h, ptr) ==
    IF ptr = NULL THEN h
    ELSE Bind(BlockOf(ptr), LAMBDA c :
         Bind(umm_assimilate_up(h, c), LAMBDA h1 :
         Bind(Put(h1, PFidx(UMM_NFREE(h1, 0)), c), LAMBDA h2 :
         Bind(Put(h2, NFidx(c), UMM_NFREE(h2, 0)), LAMBDA h3 :
         Bind(Put(h3, PFidx(c), 0), LAMBDA h4 :
         Bind(Put(h4, NFidx(0), c), LAMBDA h5 :
         Put(h5, NBidx(c), OrMask(UMM_NBLOCK(h5, c), UMM_FREELIST_MASK))))))))

\* umm_free that merges the block into its predecessor without testing the
\* predecessor's free flag
umm_free_AlwaysDown(h, ptr) ==
    IF ptr = NULL THEN h
    ELSE Bind(BlockOf(ptr), LAMBDA c :
         Bind(umm_assimilate_up(h, c), LAMBDA h1 :
         umm_assimilate_down(h1, c, UMM_FREELIST_MASK).heap))

\* umm_free putting the block at the head of the free list without making
\* it the previous free block of the old head
umm_free_NoPrevLink(h, ptr) ==
    IF ptr = NULL THEN h
    ELSE Bind(BlockOf(ptr), LAMBDA c :
         Bind(umm_assimilate_up(h, c), LAMBDA h1 :
         IF IsFreeBit(UMM_NBLOCK(h1, UMM_PBLOCK(h1, c)))
         THEN umm_assimilate_down(h1, c, UMM_FREELIST_MASK).heap
         ELSE Bind(Put(h1, NFidx(c), UMM_NFREE(h1, 0)), LAMBDA h3 :
              Bind(Put(h3, PFidx(c), 0), LAMBDA h4 :
              Bind(Put(h4, NFidx(0), c), LAMBDA h5 :
              Put(h5, NBidx(c), OrMask(UMM_NBLOCK(h5, c), UMM_FREELIST_MASK)))))))

\* ------------------------------------------------------------------ umm_free
umm_free(h, ptr) ==
    IF ptr = NULL THEN h
    ELSE Bind(BlockOf(ptr), LAMBDA c :
         Bind(umm_assimilate_up(h, c), LAMBDA h1 :
         IF IsFreeBit(UMM_NBLOCK(h1, UMM_PBLOCK(h1, c)))
         THEN umm_assimilate_down(h1, c, UMM_FREELIST_MASK).heap
         ELSE Bind(Put(h1, PFidx(UMM_NFREE(h1, 0)), c), LAMBDA h2 :
              Bind(Put(h2, NFidx(c), UMM_NFREE(h2, 0)), LAMBDA h3 :
              Bind(Put(h3, PFidx(c), 0), LAMBDA h4 :
              Bind(Put(h4, NFidx(0), c), LAMBDA h5 :
              Put(h5, NBidx(c), OrMask(UMM_NBLOCK(h5, c), UMM_FREELIST_MASK))))))))

\* ---------------------------------------------------------------- umm_malloc
\* the while loop with UMM_FIRST_FIT in place of UMM_BEST_FIT: it ends at the
\* first block that fits
RECURSIVE ScanFreeList_FirstFit(_, _, _, _, _, _)
ScanFreeList_FirstFit(h, cf, bestBlock, bestSize, blockSize, blocks) ==
    IF UMM_NFREE(h, cf) = 0
    THEN [cf |-> cf, bestBlock |-> bestBlock, bestSize |-> bestSize,
          blockSize |-> blockSize]
    ELSE Bind(Trunc16(BlockNo(UMM_NBLOCK(h, cf)) - cf), LAMBDA bs :
         IF bs >= blocks
         THEN [cf |-> cf, bestBlock |-> bestBlock, bestSize |-> bestSize,
               blockSize |-> bs]
         ELSE ScanFreeList_FirstFit(h, UMM_NFREE(h, cf), bestBlock, bestSize, bs, blocks))

\* the while loop over the free list (UMM_BEST_FIT); the result is the
\* values of cf, bestBlock, bestSize and blockSize when the loop ends
RECURSIVE ScanFreeList(_, _, _, _, _, _)
ScanFreeList(h, cf, bestBlock, bestSize, blockSize, blocks) ==
    IF UMM_NFREE(h, cf) = 0
    THEN [cf |-> cf, bestBlock |-> bestBlock, bestSize |-> bestSize,
          blockSize |-> blockSize]
    ELSE Bind(Trunc16(BlockNo(UMM_NBLOCK(h, cf)) - cf), LAMBDA bs :
         IF bs >= blocks /\ bs < bestSize
         THEN ScanFreeList(h, UMM_NFREE(h, cf), cf, bs, bs, blocks)
         ELSE ScanFreeList(h, UMM_NFREE(h, cf), bestBlock, bestSize, bs, blocks))

\* MallocExisting splitting the free block without the free mask: the part
\* that is left loses its free flag
MallocExisting_Unflagged(h, cf, blockSize, blocks) ==
    IF blockSize = blocks
    THEN [heap |-> umm_disconnect_from_free_list(h, cf), ptr |-> UMM_DATA(cf)]
    ELSE [heap |-> umm_make_new_block(h, cf, Trunc16(blockSize - blocks), 0),
          ptr |-> UMM_DATA(Trunc16(cf + (blockSize - blocks)))]

\* MallocExisting without the test for an exact fit: a block of no cell is
\* split off the free block
MallocExisting_SplitAlways(h, cf, blockSize, blocks) ==
    [heap |-> umm_make_new_block(h, cf, Trunc16(blockSize - blocks),
                                 UMM_FREELIST_MASK),
     ptr |-> UMM_DATA(Trunc16(cf + (blockSize - blocks)))]

\* mutant of MallocExisting: after the split cf is not advanced to the
\* block split off
MallocExisting_NoAdvance(h, cf, blockSize, blocks) ==
    IF blockSize = blocks
    THEN [heap |-> umm_disconnect_from_free_list(h, cf), ptr |-> UMM_DATA(cf)]
    ELSE [heap |-> umm_make_new_block(h, cf, Trunc16(blockSize - blocks),
                                      UMM_FREELIST_MASK),
          ptr |-> UMM_DATA(cf)]

\* the branch taken when cf is an existing free block of the heap
MallocExisting(h, cf, blockSize, blocks) ==
    IF blockSize = blocks
    THEN [heap |-> umm_disconnect_from_free_list(h, cf), ptr |-> UMM_DATA(cf)]
    ELSE [heap |-> umm_make_new_block(h, cf, Trunc16(blockSize - blocks),
                                      UMM_FREELIST_MASK),
          ptr |-> UMM_DATA(Trunc16(cf + (blockSize - blocks)))]

\* MallocAtEnd that leaves the free list on the old end of the heap: the
\* last free block is not made to point at the new end
MallocAtEnd_ListStays(h, cf0, blocks) ==
    IF UMM_NUMBLOCKS <= cf0 + blocks + 1
    THEN [heap |-> h, ptr |-> NULL]
    ELSE Bind(IF cf0 = 0 THEN Put(Put(h, NBidx(0), 1), NFidx(0), 1) ELSE h, LAMBDA h1 :
         Bind(IF cf0 = 0 THEN 1 ELSE cf0, LAMBDA cf :
         Bind(memcpy(h1, UMM_BLOCK(cf + blocks), UMM_BLOCK(cf), BlockBytes), LAMBDA h3 :
         Bind(Put(h3, NBidx(cf), cf + blocks), LAMBDA h4 :
         Bind(Put(h4, PBidx(cf + blocks), cf), LAMBDA h5 :
         [heap |-> h5, ptr |-> UMM_DATA(cf)])))))

\* mutant of MallocAtEnd: the room test leaves the requested blocks out
MallocAtEnd_RoomForNone(h, cf0, blocks) ==
    IF UMM_NUMBLOCKS <= cf0 + 1
    THEN [heap |-> h, ptr |-> NULL]
    ELSE Bind(IF cf0 = 0 THEN Put(Put(h, NBidx(0), 1), NFidx(0), 1) ELSE h, LAMBDA h1 :
         Bind(IF cf0 = 0 THEN 1 ELSE cf0, LAMBDA cf :
         Bind(Put(h1, NFidx(UMM_PFREE(h1, cf)), cf + blocks), LAMBDA h2 :
         Bind(memcpy(h2, UMM_BLOCK(cf + blocks), UMM_BLOCK(cf), BlockBytes), LAMBDA h3 :
         Bind(Put(h3, NBidx(cf), cf + blocks), LAMBDA h4 :
         Bind(Put(h4, PBidx(cf + blocks), cf), LAMBDA h5 :
         [heap |-> h5, ptr |-> UMM_DATA(cf)]))))))

\* mutant of MallocAtEnd: the room test is off by one
MallocAtEnd_OffByOne(h, cf0, blocks) ==
    IF UMM_NUMBLOCKS < cf0 + blocks + 1
    THEN [heap |-> h, ptr |-> NULL]
    ELSE Bind(IF cf0 = 0 THEN Put(Put(h, NBidx(0), 1), NFidx(0), 1) ELSE h, LAMBDA h1 :
         Bind(IF cf0 = 0 THEN 1 ELSE cf0, LAMBDA cf :
         Bind(Put(h1, NFidx(UMM_PFREE(h1, cf)), cf + blocks), LAMBDA h2 :
         Bind(memcpy(h2, UMM_BLOCK(cf + blocks), UMM_BLOCK(cf), BlockBytes), LAMBDA h3 :
         Bind(Put(h3, NBidx(cf), cf + blocks), LAMBDA h4 :
         Bind(Put(h4, PBidx(cf + blocks), cf), LAMBDA h5 :
         [heap |-> h5, ptr |-> UMM_DATA(cf)]))))))

\* the end-of-heap branch of umm_malloc without the initialisation of a
\* heap that is all zero
MallocAtEnd_NoInit(h, cf, blocks) ==
    IF UMM_NUMBLOCKS <= cf + blocks + 1
    THEN [heap |-> h, ptr |-> NULL]
    ELSE Bind(Put(h, NFidx(UMM_PFREE(h, cf)), cf + blocks), LAMBDA h2 :
         Bind(memcpy(h2, UMM_BLOCK(cf + blocks), UMM_BLOCK(cf), BlockBytes), LAMBDA h3 :
         Bind(Put(h3, NBidx(cf), cf + blocks), LAMBDA h4 :
         Bind(Put(h4, PBidx(cf + blocks), cf), LAMBDA h5 :
         [heap |-> h5, ptr |-> UMM_DATA(cf)]))))

\* the branch taken at the end of the heap
MallocAtEnd(h, cf0, blocks) ==
    IF UMM_NUMBLOCKS <= cf0 + blocks + 1
    THEN [heap |-> h, ptr |-> NULL]
    ELSE Bind(IF cf0 = 0 THEN Put(Put(h, NBidx(0), 1), NFidx(0), 1) ELSE h, LAMBDA h1 :
         Bind(IF cf0 = 0 THEN 1 ELSE cf0, LAMBDA cf :
         Bind(Put(h1, NFidx(UMM_PFREE(h1, cf)), cf + blocks), LAMBDA h2 :
         Bind(memcpy(h2, UMM_BLOCK(cf + blocks), UMM_BLOCK(cf), BlockBytes), LAMBDA h3 :
         Bind(Put(h3, NBidx(cf), cf + blocks), LAMBDA h4 :
         Bind(Put(h4, PBidx(cf + blocks), cf), LAMBDA h5 :
         [heap |-> h5, ptr |-> UMM_DATA(cf)]))))))

\* the result is the heap and the pointer returned
umm_malloc(h, size) ==
    IF size = 0 THEN [heap |-> h, ptr |-> NULL]
    ELSE Bind(umm_blocks(size), LAMBDA blocks :
         Bind(ScanFreeList(h, UMM_NFREE(h, 0), UMM_NFREE(h, 0),
                           BestSizeInit, 0, blocks), LAMBDA scan :
         Bind(IF scan.bestSize # BestSizeInit THEN scan.bestBlock ELSE scan.cf, LAMBDA cf :
         Bind(IF scan.bestSize # BestSizeInit THEN scan.bestSize
              ELSE scan.blockSize, LAMBDA blockSize :
         IF BlockNo(UMM_NBLOCK(h, cf)) # 0
         THEN MallocExisting(h, cf, blockSize, blocks)
         ELSE MallocAtEnd(h, cf, blocks)))))

\* --------------------------------------------------------------- umm_realloc
\* ReallocFinish in the naive way: whenever the sizes differ, a new block is
\* asked of umm_malloc, the bytes are copied and the old block is freed
ReallocFinish_AlwaysMove(h, c, ptr, size, blocks, curSize) ==
    Bind(Trunc16(UMM_NBLOCK(h, c) - c), LAMBDA blockSize :
    IF blockSize = blocks THEN [heap |-> h, ptr |-> ptr]
    ELSE Bind(umm_malloc(h, size), LAMBDA m :
         IF m.ptr # NULL
         THEN [heap |-> umm_free(memcpy(m.heap, m.ptr, ptr,
                                        IF blockSize < blocks THEN curSize
                                        ELSE blocks * BlockBytes - HeaderBytes), ptr),
               ptr |-> m.ptr]
         ELSE [heap |-> m.heap, ptr |-> NULL]))

\* ReallocFinish that keeps the cells left over in the block: no block is
\* split off when the block is larger than the request
ReallocFinish_NoSplit(h, c, ptr, size, blocks, curSize) ==
    Bind(Trunc16(UMM_NBLOCK(h, c) - c), LAMBDA blockSize :
    IF blockSize >= blocks THEN [heap |-> h, ptr |-> ptr]
    ELSE Bind(umm_malloc(h, size), LAMBDA m :
         IF m.ptr # NULL
         THEN [heap |-> umm_free(memcpy(m.heap, m.ptr, ptr, curSize), ptr),
               ptr |-> m.ptr]
         ELSE [heap |-> m.heap, ptr |-> NULL]))

\* mutant of ReallocFinish: the old block is freed although umm_malloc
\* failed
ReallocFinish_FreeOnFailure(h, c, ptr, size, blocks, curSize) ==
    Bind(Trunc16(UMM_NBLOCK(h, c) - c), LAMBDA blockSize :
    IF blockSize = blocks THEN [heap |-> h, ptr |-> ptr]
    ELSE IF blockSize > blocks
    THEN [heap |-> umm_free(umm_make_new_block(h, c, blocks, 0),
                            UMM_DATA(Trunc16(c + blocks))),
          ptr |-> ptr]
    ELSE Bind(umm_malloc(h, size), LAMBDA m :
         IF m.ptr # NULL
         THEN [heap |-> umm_free(memcpy(m.heap, m.ptr, ptr, curSize), ptr),
               ptr |-> m.ptr]
         ELSE [heap |-> umm_free(m.heap, ptr), ptr |-> NULL]))

\* the three cases after the block size is calculated again
ReallocFinish(h, c, ptr, size, blocks, curSize) ==
    Bind(Trunc16(UMM_NBLOCK(h, c) - c), LAMBDA blockSize :
    IF blockSize = blocks THEN [heap |-> h, ptr |-> ptr]
    ELSE IF blockSize > blocks
    THEN [heap |-> umm_free(umm_make_new_block(h, c, blocks, 0),
                            UMM_DATA(Trunc16(c + blocks))),
          ptr |-> ptr]
    ELSE Bind(umm_malloc(h, size), LAMBDA m :
         IF m.ptr # NULL
         THEN [heap |-> umm_free(memcpy(m.heap, m.ptr, ptr, curSize), ptr),
               ptr |-> m.ptr]
         ELSE [heap |-> m.heap, ptr |-> NULL]))

\* mutant of ReallocResize: merges down into a free predecessor without
\* testing that the merged block holds the request
ReallocResize_MergeAlways(h, ptr, size) ==
    Bind(umm_blocks(size), LAMBDA blocks :
    Bind(BlockOf(ptr), LAMBDA c :
    Bind(Trunc16(UMM_NBLOCK(h, c) - c) * BlockBytes - HeaderBytes, LAMBDA curSize :
    Bind(umm_assimilate_up(h, c), LAMBDA h1 :
    IF IsFreeBit(UMM_NBLOCK(h1, UMM_PBLOCK(h1, c)))
    THEN Bind(umm_disconnect_from_free_list(h1, UMM_PBLOCK(h1, c)), LAMBDA h2 :
         Bind(umm_assimilate_down(h2, c, 0), LAMBDA d :
         Bind(memmove(d.heap, UMM_DATA(d.c), ptr, curSize), LAMBDA h3 :
         ReallocFinish(h3, d.c, UMM_DATA(d.c), size, blocks, curSize))))
    ELSE ReallocFinish(h1, c, ptr, size, blocks, curSize)))))

\* ReallocMerge that merges down without taking the block before off the
\* free list
ReallocMerge_NoDisconnect(h, ptr, size) ==
    Bind(umm_blocks(size), LAMBDA blocks :
    Bind(BlockOf(ptr), LAMBDA c :
    Bind(Trunc16(UMM_NBLOCK(h, c) - c) * BlockBytes - HeaderBytes, LAMBDA curSize :
    Bind(umm_assimilate_up(h, c), LAMBDA h1 :
    IF IsFreeBit(UMM_NBLOCK(h1, UMM_PBLOCK(h1, c)))
       /\ blocks <= UMM_NBLOCK(h1, c) - UMM_PBLOCK(h1, c)
    THEN Bind(umm_assimilate_down(h1, c, 0), LAMBDA d :
         Bind(memmove(d.heap, UMM_DATA(d.c), ptr, curSize), LAMBDA h3 :
         [heap |-> h3, c |-> d.c, ptr |-> UMM_DATA(d.c), curSize |-> curSize]))
    ELSE [heap |-> h1, c |-> c, ptr |-> ptr, curSize |-> curSize]))))

\* the part of umm_realloc after the same-size return and before the block
\* size is calculated again: assimilate up, and merge down when the merged
\* block holds the request; the result is the heap, c, ptr and curSize
ReallocMerge(h, ptr, size) ==
    Bind(umm_blocks(size), LAMBDA blocks :
    Bind(BlockOf(ptr), LAMBDA c :
    Bind(Trunc16(UMM_NBLOCK(h, c) - c) * BlockBytes - HeaderBytes, LAMBDA curSize :
    Bind(umm_assimilate_up(h, c), LAMBDA h1 :
    IF IsFreeBit(UMM_NBLOCK(h1, UMM_PBLOCK(h1, c)))
       /\ blocks <= UMM_NBLOCK(h1, c) - UMM_PBLOCK(h1, c)
    THEN Bind(umm_disconnect_from_free_list(h1, UMM_PBLOCK(h1, c)), LAMBDA h2 :
         Bind(umm_assimilate_down(h2, c, 0), LAMBDA d :
         Bind(memmove(d.heap, UMM_DATA(d.c), ptr, curSize), LAMBDA h3 :
         [heap |-> h3, c |-> d.c, ptr |-> UMM_DATA(d.c), curSize |-> curSize])))
    ELSE [heap |-> h1, c |-> c, ptr |-> ptr, curSize |-> curSize]))))

\* the part of umm_realloc after the same-size return: assimilate up, merge
\* down when the merged block holds the request, and finish
ReallocResize(h, ptr, size) ==
    Bind(ReallocMerge(h, ptr, size), LAMBDA m :
    ReallocFinish(m.heap, m.c, m.ptr, size, umm_blocks(size), m.curSize))

\* mutant of umm_realloc: no test for size = 0
umm_realloc_NoZeroCase(h, ptr, size) ==
    IF ptr = NULL THEN umm_malloc(h, size)
    ELSE IF Trunc16(UMM_NBLOCK(h, BlockOf(ptr)) - BlockOf(ptr)) = umm_blocks(size)
    THEN [heap |-> h, ptr |-> ptr]
    ELSE ReallocResize(h, ptr, size)

\* mutant of umm_realloc: the same-size return comes after umm_assimilate_up
umm_realloc_LateReturn(h, ptr, size) ==
    IF ptr = NULL THEN umm_malloc(h, size)
    ELSE IF size = 0 THEN [heap |-> umm_free(h, ptr), ptr |-> NULL]
    ELSE IF Trunc16(UMM_NBLOCK(h, BlockOf(ptr)) - BlockOf(ptr)) = umm_blocks(size)
    THEN [heap |-> umm_assimilate_up(h, BlockOf(ptr)), ptr |-> ptr]
    ELSE ReallocResize(h, ptr, size)

\* the result is the heap and the pointer returned
umm_realloc(h, ptr, size) ==
    IF ptr = NULL THEN umm_malloc(h, size)
    ELSE IF size = 0 THEN [heap |-> umm_free(h, ptr), ptr |-> NULL]
    ELSE IF Trunc16(UMM_NBLOCK(h, BlockOf(ptr)) - BlockOf(ptr)) = umm_blocks(size)
    THEN [heap |-> h, ptr |-> ptr]
    ELSE ReallocResize(h, ptr, size)

\* ------------------------------------------------------------------ umm_info
ZeroInfo ==
    [totalEntries |-> 0, usedEntries |-> 0, freeEntries |-> 0,
     totalBlocks |-> 0, usedBlocks |-> 0, freeBlocks |-> 0]

\* the walker adding the span of a used block to usedEntries and 1 to
\* usedBlocks: the two counters the wrong way round
RECURSIVE InfoWalk_EntriesAsBlocks(_, _, _, _)
InfoWalk_EntriesAsBlocks(h, ptr, blockNo, info) ==
    IF BlockNo(UMM_NBLOCK(h, blockNo)) = 0
    THEN [ret |-> NULL,
          info |-> [info EXCEPT
                      !.freeBlocks = @ + (UMM_NUMBLOCKS - blockNo),
                      !.totalBlocks = @ + (UMM_NUMBLOCKS - blockNo)]]
    ELSE Bind(BlockNo(UMM_NBLOCK(h, blockNo)) - blockNo, LAMBDA span :
         Bind([info EXCEPT !.totalEntries = @ + 1, !.totalBlocks = @ + span], LAMBDA i1 :
         IF IsFreeBit(UMM_NBLOCK(h, blockNo))
         THEN Bind([i1 EXCEPT !.freeEntries = @ + 1, !.freeBlocks = @ + span], LAMBDA i2 :
              IF ptr = UMM_BLOCK(blockNo)
              THEN [ret |-> ptr, info |-> i2]
              ELSE InfoWalk_EntriesAsBlocks(h, ptr, BlockNo(UMM_NBLOCK(h, blockNo)), i2))
         ELSE InfoWalk_EntriesAsBlocks(h, ptr, BlockNo(UMM_NBLOCK(h, blockNo)),
                       [i1 EXCEPT !.usedEntries = @ + span, !.usedBlocks = @ + 1])))

\* the walker comparing the pointer with the address of every block, used
\* blocks included
RECURSIVE InfoWalk_AnyBlock(_, _, _, _)
InfoWalk_AnyBlock(h, ptr, blockNo, info) ==
    IF BlockNo(UMM_NBLOCK(h, blockNo)) = 0
    THEN [ret |-> NULL,
          info |-> [info EXCEPT
                      !.freeBlocks = @ + (UMM_NUMBLOCKS - blockNo),
                      !.totalBlocks = @ + (UMM_NUMBLOCKS - blockNo)]]
    ELSE Bind(BlockNo(UMM_NBLOCK(h, blockNo)) - blockNo, LAMBDA span :
         Bind([info EXCEPT !.totalEntries = @ + 1, !.totalBlocks = @ + span], LAMBDA i1 :
         IF ptr = UMM_BLOCK(blockNo)
         THEN [ret |-> ptr, info |-> i1]
         ELSE IF IsFreeBit(UMM_NBLOCK(h, blockNo))
         THEN InfoWalk_AnyBlock(h, ptr, BlockNo(UMM_NBLOCK(h, blockNo)),
                       [i1 EXCEPT !.freeEntries = @ + 1, !.freeBlocks = @ + span])
         ELSE InfoWalk_AnyBlock(h, ptr, BlockNo(UMM_NBLOCK(h, blockNo)),
                       [i1 EXCEPT !.usedEntries = @ + 1, !.usedBlocks = @ + span])))

\* the while loop of the walker; the result is the return value and heapInfo
RECURSIVE InfoWalk(_, _, _, _)
InfoWalk(h, ptr, blockNo, info) ==
    IF BlockNo(UMM_NBLOCK(h, blockNo)) = 0
    THEN [ret |-> NULL,
          info |-> [info EXCEPT
                      !.freeBlocks = @ + (UMM_NUMBLOCKS - blockNo),
                      !.totalBlocks = @ + (UMM_NUMBLOCKS - blockNo)]]
    ELSE Bind(BlockNo(UMM_NBLOCK(h, blockNo)) - blockNo, LAMBDA span :
         Bind([info EXCEPT !.totalEntries = @ + 1, !.totalBlocks = @ + span], LAMBDA i1 :
         IF IsFreeBit(UMM_NBLOCK(h, blockNo))
         THEN Bind([i1 EXCEPT !.freeEntries = @ + 1, !.freeBlocks = @ + span], LAMBDA i2 :
              IF ptr = UMM_BLOCK(blockNo)
              THEN [ret |-> ptr, info |-> i2]
              ELSE InfoWalk(h, ptr, BlockNo(UMM_NBLOCK(h, blockNo)), i2))
         ELSE InfoWalk(h, ptr, BlockNo(UMM_NBLOCK(h, blockNo)),
                       [i1 EXCEPT !.usedEntries = @ + 1, !.usedBlocks = @ + span])))

\* mutant of umm_info: the walk starts at cell 0 instead of at its successor
umm_info_FromZero(h, ptr) == InfoWalk(h, ptr, 0, ZeroInfo)

\* the result is the pointer returned and heapInfo
umm_info(h, ptr) == InfoWalk(h, ptr, BlockNo(UMM_NBLOCK(h, 0)), ZeroInfo)


\* ------------------------------------------------------------ the state
\* umm_heap: the words of the heap; heapInfo: the record umm_info fills;
\* live: the pointers the caller holds (returned and not yet freed);
\* last: the last call, its arguments, its result and the heap before it;
\* calls: the number of calls made so far;
\* stack, owned, lock, depth: the calls in progress of each task, the
\* pointers each task holds, the task in the critical section, and the
\* number of entries of each task not yet matched by an exit
VARIABLES umm_heap, heapInfo, live, last, calls, stack, owned, lock, depth

vars == <<umm_heap, heapInfo, live, last, calls, stack, owned, lock, depth>>

\* the tasks that call the allocator
Tasks == {1, 2}
\* the value of lock when no task is in the critical section
NoTask == 0

\* the payload of the block at cell c: the words after its header up to the
\* next block, and its capacity in bytes
PayloadWords(h, c) == (NFidx(c))..(NBidx(BlockNo(UMM_NBLOCK(h, c))) - 1)
Capacity(h, c) == (BlockNo(UMM_NBLOCK(h, c)) - c) * BlockBytes - HeaderBytes

\* what the caller stores in word k of a payload
DataWord(k) == 40960 + k

Call(op, ptr, size, ret) ==
    [op |-> op, ptr |-> ptr, size |-> size, ret |-> ret,
     heap |-> umm_heap, live |-> live]

\* the runtime startup has set the heap and heapInfo (BSS) to 0
Init ==
    /\ umm_heap = [i \in Words |-> 0]
    /\ heapInfo = ZeroInfo
    /\ live = {}
    /\ last = [op |-> "none", ptr |-> NULL, size |-> 0, ret |-> NULL,
               heap |-> [i \in Words |-> 0], live |-> {}]
    /\ calls = 0
    /\ stack = [t \in Tasks |-> <<>>]
    /\ owned = [t \in Tasks |-> {}]
    /\ lock = NoTask
    /\ depth = [t \in Tasks |-> 0]

Malloc(size) ==
    \E r \in {umm_malloc(umm_heap, size)} :
       /\ umm_heap' = r.heap
       /\ live' = IF r.ptr = NULL THEN live ELSE live \cup {r.ptr}
       /\ last' = Call("malloc", NULL, size, r.ptr)
       /\ UNCHANGED heapInfo

Free(ptr) ==
    /\ umm_heap' = umm_free(umm_heap, ptr)
    /\ live' = live \ {ptr}
    /\ last' = Call("free", ptr, 0, NULL)
    /\ UNCHANGED heapInfo

Realloc(ptr, size) ==
    \E r \in {umm_realloc(umm_heap, ptr, size)} :
       /\ umm_heap' = r.heap
       /\ live' = IF r.ptr # NULL THEN (live \ {ptr}) \cup {r.ptr}
                  ELSE IF size = 0 THEN live \ {ptr}
                  ELSE live
       /\ last' = Call("realloc", ptr, size, r.ptr)
       /\ UNCHANGED heapInfo

Info(ptr) ==
    \E r \in {umm_info(umm_heap, ptr)} :
       /\ heapInfo' = r.info
       /\ last' = Call("info", ptr, 0, r.ret)
       /\ UNCHANGED <<umm_heap, live>>

\* the caller fills the payload of a block it holds
Store(ptr) ==
    /\ umm_heap' = [i \in Words |->
                      IF i \in PayloadWords(umm_heap, BlockOf(ptr))
                      THEN DataWord(i - NFidx(BlockOf(ptr)))
                      ELSE umm_heap[i]]
    /\ last' = Call("store", ptr, 0, NULL)
    /\ UNCHANGED <<heapInfo, live>>

\* the addresses handed to umm_info: NULL, the address of every cell and the
\* pointers the caller holds
InfoPtrs == {NULL} \cup {UMM_BLOCK(c) : c \in Cells} \cup live

DoMalloc == \E size \in Sizes : Malloc(size)
DoFree == \E ptr \in live \cup {NULL} : Free(ptr)
DoRealloc == \E ptr \in live \cup {NULL} : \E size \in Sizes : Realloc(ptr, size)
DoInfo == \E ptr \in InfoPtrs : Info(ptr)
DoStore == \E ptr \in live : Store(ptr)

Step == DoMalloc \/ DoFree \/ DoRealloc \/ DoInfo \/ DoStore

\* one caller, every call run from its first statement to its return
Next ==
    /\ calls < MaxCalls
    /\ calls' = calls + 1
    /\ Step
    /\ UNCHANGED <<stack, owned, lock, depth>>

Spec == Init /\ [][Next]_vars

\* the calls of the caller that write to the heap: umm_info, which changes
\* heapInfo only, is left out, so that the heaps of more calls are reached
\* for the statements about the structure of the heap
HeapStep == DoMalloc \/ DoFree \/ DoRealloc \/ DoStore

HeapNext ==
    /\ calls < MaxCalls
    /\ calls' = calls + 1
    /\ HeapStep
    /\ UNCHANGED <<stack, owned, lock, depth>>

HeapSpec == Init /\ [][HeapNext]_vars

\* ------------------------------------------------------------ the tasks
\* Two tasks call the four public functions; a call runs in steps that
\* end where the code executes UMM_CRITICAL_ENTRY or UMM_CRITICAL_EXIT or
\* calls umm_malloc or umm_free from umm_realloc.  stack[t] holds the frames
\* of the calls of task t in progress, the innermost last.

\* the frame of a call: ptr and size are the arguments (ptr follows the
\* block when umm_realloc moves it down), arg is the pointer passed, ret the
\* value to return, got the value the last nested call returned, cur is
\* curSize
Frame(fn, ptr, size) ==
    [fn |-> fn, pc |-> "start", ptr |-> ptr, size |-> size, arg |-> ptr,
     ret |-> NULL, got |-> NULL, cur |-> 0]

Top(t) == stack[t][Len(stack[t])]
At(t, fn, pc) == stack[t] # <<>> /\ Top(t).fn = fn /\ Top(t).pc = pc
\* the stack of t with its innermost frame replaced by f
WithTop(t, f) == [stack[t] EXCEPT ![Len(stack[t])] = f]

\* the pointers task t holds once its outermost call f has returned v
OwnedAfter(t, f, v) ==
    IF f.fn = "malloc" THEN (IF v = NULL THEN owned[t] ELSE owned[t] \cup {v})
    ELSE IF f.fn = "free" THEN owned[t] \ {f.arg}
    ELSE IF f.fn = "realloc"
    THEN (IF v # NULL THEN (owned[t] \ {f.arg}) \cup {v}
          ELSE IF f.size = 0 THEN owned[t] \ {f.arg}
          ELSE owned[t])
    ELSE owned[t]

\* task t has no call in progress: it has made none, or its last one has
\* returned (the frame stays, as the record of that call and its result)
Idle(t) == stack[t] = <<>> \/ (Len(stack[t]) = 1 /\ Top(t).pc = "done")

\* return v from the innermost call of t: to the calling frame, or to the task
Return(t, v) ==
    IF Len(stack[t]) = 1
    THEN /\ stack' = [stack EXCEPT ![t] = <<[Top(t) EXCEPT !.pc = "done", !.ret = v]>>]
         /\ owned' = [owned EXCEPT ![t] = OwnedAfter(t, Top(t), v)]
         /\ UNCHANGED <<live, last>>
    ELSE /\ stack' = [stack EXCEPT ![t] =
                        [SubSeq(stack[t], 1, Len(stack[t]) - 1)
                           EXCEPT ![Len(stack[t]) - 1].got = v]]
         /\ owned' = owned
         /\ UNCHANGED <<live, last>>

\* the innermost frame of t becomes f and t calls fn(ptr, size)
CallFrom(t, f, fn, ptr, size) ==
    /\ stack' = [stack EXCEPT ![t] = Append(WithTop(t, f), Frame(fn, ptr, size))]
    /\ owned' = owned
    /\ UNCHANGED <<live, last>>

\* the innermost frame of t becomes f
Goto(t, f) ==
    /\ stack' = [stack EXCEPT ![t] = WithTop(t, f)]
    /\ owned' = owned
    /\ UNCHANGED <<live, last>>

\* UMM_CRITICAL_ENTRY and UMM_CRITICAL_EXIT as a binary lock that does not
\* count: entry waits while another task holds it and then takes it, exit
\* releases it; depth[t] counts the entries of t that no exit has matched.
\* An entry by the task that holds the lock passes (interrupts are disabled
\* again); a lock on which it would wait for ever is the same task taking
\* no further step, which a behaviour of TaskSpec is free to do.
UMM_CRITICAL_ENTRY(t) ==
    /\ lock \in {NoTask, t}
    /\ lock' = t
    /\ depth' = [depth EXCEPT ![t] = @ + 1]

UMM_CRITICAL_EXIT(t) ==
    /\ lock' = NoTask
    /\ depth' = [depth EXCEPT ![t] = @ - 1]

NoLockStep == UNCHANGED <<lock, depth>>

\* the sizes the tasks ask for: none, one block, the largest block
TaskSizes == {0, SizeHi(1), SizeLo(MaxBlocks)}

\* a task that has no call in progress calls a public function
TaskCall(t) ==
    /\ Idle(t)
    /\ calls < MaxTaskCalls
    /\ calls' = calls + 1
    /\ \E f \in {Frame("malloc", NULL, size) : size \in TaskSizes}
             \cup {Frame("free", ptr, 0) : ptr \in owned[t] \cup {NULL}}
             \cup {Frame("realloc", ptr, size) :
                     ptr \in owned[t] \cup {NULL}, size \in TaskSizes}
             \cup {Frame("info", ptr, 0) : ptr \in {NULL, UMM_BLOCK(1)}} :
          stack' = [stack EXCEPT ![t] = <<f>>]
    /\ UNCHANGED <<umm_heap, heapInfo, owned, lock, depth, live, last>>

\* umm_malloc entering without the test for size 0
MallocStart_NoZeroTest(t) ==
    /\ At(t, "malloc", "start")
    /\ UMM_CRITICAL_ENTRY(t)
    /\ Goto(t, [Top(t) EXCEPT !.pc = "body"])
    /\ UNCHANGED <<umm_heap, heapInfo, calls>>

\* umm_malloc: the test for size 0 and the entry
MallocStart(t) ==
    /\ At(t, "malloc", "start")
    /\ IF Top(t).size = 0
       THEN Return(t, NULL) /\ NoLockStep
       ELSE UMM_CRITICAL_ENTRY(t) /\ Goto(t, [Top(t) EXCEPT !.pc = "body"])
    /\ UNCHANGED <<umm_heap, heapInfo, calls>>

\* umm_malloc between entry and exit
MallocBody(t) ==
    /\ At(t, "malloc", "body")
    /\ \E r \in {umm_malloc(umm_heap, Top(t).size)} :
          /\ umm_heap' = r.heap
          /\ Goto(t, [Top(t) EXCEPT !.pc = "exit", !.ret = r.ptr])
    /\ NoLockStep
    /\ UNCHANGED <<heapInfo, calls>>

\* umm_malloc returning NULL for want of memory without the exit
MallocExit_NoExitWhenNull(t) ==
    /\ At(t, "malloc", "exit")
    /\ IF Top(t).ret = NULL THEN NoLockStep ELSE UMM_CRITICAL_EXIT(t)
    /\ Return(t, Top(t).ret)
    /\ UNCHANGED <<umm_heap, heapInfo, calls>>

\* umm_malloc: the exit (out of memory or not) and the return
MallocExit(t) ==
    /\ At(t, "malloc", "exit")
    /\ UMM_CRITICAL_EXIT(t)
    /\ Return(t, Top(t).ret)
    /\ UNCHANGED <<umm_heap, heapInfo, calls>>

\* umm_free: the test for NULL and the entry
FreeStart(t) ==
    /\ At(t, "free", "start")
    /\ IF Top(t).ptr = NULL
       THEN Return(t, NULL) /\ NoLockStep
       ELSE UMM_CRITICAL_ENTRY(t) /\ Goto(t, [Top(t) EXCEPT !.pc = "body"])
    /\ UNCHANGED <<umm_heap, heapInfo, calls>>

FreeBody(t) ==
    /\ At(t, "free", "body")
    /\ umm_heap' = umm_free(umm_heap, Top(t).ptr)
    /\ Goto(t, [Top(t) EXCEPT !.pc = "exit"])
    /\ NoLockStep
    /\ UNCHANGED <<heapInfo, calls>>

FreeExit(t) ==
    /\ At(t, "free", "exit")
    /\ UMM_CRITICAL_EXIT(t)
    /\ Return(t, NULL)
    /\ UNCHANGED <<umm_heap, heapInfo, calls>>

\* umm_realloc: a NULL pointer calls umm_malloc, size 0 calls umm_free,
\* anything else enters
ReallocStart(t) ==
    /\ At(t, "realloc", "start")
    /\ IF Top(t).ptr = NULL
       THEN /\ CallFrom(t, [Top(t) EXCEPT !.pc = "tail"], "malloc", NULL, Top(t).size)
            /\ NoLockStep
       ELSE IF Top(t).size = 0
       THEN /\ CallFrom(t, [Top(t) EXCEPT !.pc = "tail"], "free", Top(t).ptr, 0)
            /\ NoLockStep
       ELSE /\ UMM_CRITICAL_ENTRY(t)
            /\ Goto(t, [Top(t) EXCEPT !.pc = "body"])
    /\ UNCHANGED <<umm_heap, heapInfo, calls>>

\* umm_realloc returns what umm_malloc returned, or NULL after umm_free
ReallocTail(t) ==
    /\ At(t, "realloc", "tail")
    /\ Return(t, Top(t).got)
    /\ NoLockStep
    /\ UNCHANGED <<umm_heap, heapInfo, calls>>

\* umm_realloc from the entry to the exit or to the call of umm_free (block
\* too large) or umm_malloc (block too small)
ReallocBody(t) ==
    /\ At(t, "realloc", "body")
    /\ LET f == Top(t)
           blocks == umm_blocks(f.size)
       IN IF Trunc16(UMM_NBLOCK(umm_heap, BlockOf(f.ptr)) - BlockOf(f.ptr)) = blocks
          THEN /\ umm_heap' = umm_heap
               /\ Goto(t, [f EXCEPT !.pc = "exit", !.ret = f.ptr])
          ELSE \E m \in {ReallocMerge(umm_heap, f.ptr, f.size)} :
               \E blockSize \in {Trunc16(UMM_NBLOCK(m.heap, m.c) - m.c)} :
                  IF blockSize = blocks
                  THEN /\ umm_heap' = m.heap
                       /\ Goto(t, [f EXCEPT !.pc = "exit", !.ret = m.ptr])
                  ELSE IF blockSize > blocks
                  THEN /\ umm_heap' = umm_make_new_block(m.heap, m.c, blocks, 0)
                       /\ CallFrom(t, [f EXCEPT !.pc = "exit", !.ret = m.ptr],
                                   "free", UMM_DATA(Trunc16(m.c + blocks)), 0)
                  ELSE /\ umm_heap' = m.heap
                       /\ CallFrom(t, [f EXCEPT !.pc = "grown", !.ptr = m.ptr,
                                                !.cur = m.curSize],
                                   "malloc", NULL, f.size)
    /\ NoLockStep
    /\ UNCHANGED <<heapInfo, calls>>

\* umm_realloc after umm_malloc has returned: copy and free the old block, if
\* the malloc was successful
ReallocGrown(t) ==
    /\ At(t, "realloc", "grown")
    /\ LET f == Top(t)
       IN IF f.got # NULL
          THEN /\ umm_heap' = memcpy(umm_heap, f.got, f.ptr, f.cur)
               /\ CallFrom(t, [f EXCEPT !.pc = "exit", !.ret = f.got],
                           "free", f.ptr, 0)
          ELSE /\ umm_heap' = umm_heap
               /\ Goto(t, [f EXCEPT !.pc = "exit", !.ret = NULL])
    /\ NoLockStep
    /\ UNCHANGED <<heapInfo, calls>>

\* umm_realloc: the exit and the return
ReallocExit(t) ==
    /\ At(t, "realloc", "exit")
    /\ UMM_CRITICAL_EXIT(t)
    /\ Return(t, Top(t).ret)
    /\ UNCHANGED <<umm_heap, heapInfo, calls>>

InfoStart(t) ==
    /\ At(t, "info", "start")
    /\ UMM_CRITICAL_ENTRY(t)
    /\ Goto(t, [Top(t) EXCEPT !.pc = "body"])
    /\ UNCHANGED <<umm_heap, heapInfo, calls>>

InfoBody(t) ==
    /\ At(t, "info", "body")
    /\ \E r \in {umm_info(umm_heap, Top(t).ptr)} :
          /\ heapInfo' = r.info
          /\ Goto(t, [Top(t) EXCEPT !.pc = "exit", !.ret = r.ret])
    /\ NoLockStep
    /\ UNCHANGED <<umm_heap, calls>>

\* umm_info: the exit (pointer found or not) and the return
InfoExit(t) ==
    /\ At(t, "info", "exit")
    /\ UMM_CRITICAL_EXIT(t)
    /\ Return(t, Top(t).ret)
    /\ UNCHANGED <<umm_heap, heapInfo, calls>>

TaskStep(t) ==
    \/ TaskCall(t)
    \/ MallocStart(t) \/ MallocBody(t) \/ MallocExit(t)
    \/ FreeStart(t) \/ FreeBody(t) \/ FreeExit(t)
    \/ ReallocStart(t) \/ ReallocTail(t) \/ ReallocBody(t)
    \/ ReallocGrown(t) \/ ReallocExit(t)
    \/ InfoStart(t) \/ InfoBody(t) \/ InfoExit(t)

\* the tasks interleave at the entries, the exits and the calls
TaskNext == \E t \in Tasks : TaskStep(t)

TaskSpec == Init /\ [][TaskNext]_vars


\* ------------------------------------------------- views of a heap for claims
\* the cells that begin a logical block on the physical walk from cell 0,
\* the block at the end of the heap (NB & MASK = 0) left out
RECURSIVE WalkFrom(_, _, _)
WalkFrom(h, c, fuel) ==
    IF fuel = 0 \/ c \notin Cells \/ BlockNo(UMM_NBLOCK(h, c)) = 0 THEN <<>>
    ELSE <<c>> \o WalkFrom(h, BlockNo(UMM_NBLOCK(h, c)), fuel - 1)

PhysChain(h) == WalkFrom(h, BlockNo(UMM_NBLOCK(h, 0)), UMM_NUMBLOCKS)

\* the same cells as a set, and the cell at which the walk stops
RECURSIVE BlocksFrom(_, _, _)
BlocksFrom(h, c, fuel) ==
    IF fuel = 0 \/ c \notin Cells \/ BlockNo(UMM_NBLOCK(h, c)) = 0 THEN {}
    ELSE {c} \cup BlocksFrom(h, BlockNo(UMM_NBLOCK(h, c)), fuel - 1)

RECURSIVE StopFrom(_, _, _)
StopFrom(h, c, fuel) ==
    IF fuel = 0 \/ c \notin Cells \/ BlockNo(UMM_NBLOCK(h, c)) = 0 THEN c
    ELSE StopFrom(h, BlockNo(UMM_NBLOCK(h, c)), fuel - 1)

PhysBlocks(h) == BlocksFrom(h, BlockNo(UMM_NBLOCK(h, 0)), UMM_NUMBLOCKS)

\* the index of the block at the end of the heap: where the walk stops
EndBlock(h) == StopFrom(h, BlockNo(UMM_NBLOCK(h, 0)), UMM_NUMBLOCKS)

Span(h, c) == BlockNo(UMM_NBLOCK(h, c)) - c
CellRange(h, c) == c..(BlockNo(UMM_NBLOCK(h, c)) - 1)
EndRange(h) == EndBlock(h)..(UMM_NUMBLOCKS - 1)
FreeFlagged(h) == {c \in PhysBlocks(h) : IsFreeBit(UMM_NBLOCK(h, c))}
UsedBlocks(h) == {c \in PhysBlocks(h) : ~IsFreeBit(UMM_NBLOCK(h, c))}

\* the free list: the cells met along NF from NF(0) until a link is 0
RECURSIVE ListFrom(_, _, _)
ListFrom(h, c, fuel) ==
    IF fuel = 0 \/ c = 0 \/ c \notin Cells THEN <<>>
    ELSE <<c>> \o ListFrom(h, UMM_NFREE(h, c), fuel - 1)

FreeList(h) == ListFrom(h, UMM_NFREE(h, 0), UMM_NUMBLOCKS)
FreeListCells(h) == Bind(FreeList(h), LAMBDA fl : {fl[i] : i \in 1..Len(fl)})

\* what umm_info(NULL, ...) leaves in heapInfo
Counts(h) == umm_info(h, NULL).info

Max(S) == CHOOSE x \in S : \A y \in S : y <= x
\* the largest run of free cells: a free block or the end of the heap
LargestFree(h) ==
    Max({Span(h, c) : c \in FreeFlagged(h)} \cup {UMM_NUMBLOCKS - EndBlock(h)})

\* the heap has been initialised by a first allocation
Initialised(h) == UMM_NBLOCK(h, 0) # 0

\* the structure the code keeps between calls once the heap is initialised
ChainOK(h) ==
    /\ UMM_NBLOCK(h, 0) = 1
    /\ UMM_PBLOCK(h, 0) = 0
    /\ \A c \in PhysBlocks(h) :
          /\ c >= 1
          /\ BlockNo(UMM_NBLOCK(h, c)) > c
          /\ BlockNo(UMM_NBLOCK(h, c)) < UMM_NUMBLOCKS
          /\ UMM_PBLOCK(h, BlockNo(UMM_NBLOCK(h, c))) = c
    /\ UMM_PBLOCK(h, 1) = 0
    /\ EndBlock(h) \in 1..(UMM_NUMBLOCKS - 1)
    /\ UMM_NBLOCK(h, EndBlock(h)) = 0

NoAdjacentFree(h) ==
    \E flagged \in {FreeFlagged(h)} :
       \A c \in flagged : BlockNo(UMM_NBLOCK(h, c)) \notin flagged

FreeListOK(h) ==
    LET fl == FreeList(h)
    IN /\ Len(fl) >= 1
       /\ fl[Len(fl)] = EndBlock(h)
       /\ UMM_NFREE(h, EndBlock(h)) = 0
       /\ \A i, j \in 1..Len(fl) : i # j => fl[i] # fl[j]
       /\ {fl[i] : i \in 1..(Len(fl) - 1)} = FreeFlagged(h)
       /\ \A i \in 1..Len(fl) :
             UMM_PFREE(h, fl[i]) = IF i = 1 THEN 0 ELSE fl[i - 1]

HeapOK(h) == ChainOK(h) /\ NoAdjacentFree(h) /\ FreeListOK(h)

\* the heap is untouched, or it has the structure above
TypeOK ==
    /\ umm_heap \in [Words -> 0..(U16 - 1)]
    /\ IF Initialised(umm_heap) THEN HeapOK(umm_heap)
       ELSE umm_heap = [i \in Words |-> 0]
    /\ calls \in 0..MaxCalls

\* ------------------------------------------------- sizes of the whole range
\* size_t has 32 bits and umm_blocks returns an unsigned short: the sizes
\* at both edges of every block count up to the heap, and the smallest sizes
\* whose count is U16 + k, for k blocks and for none
AnySizes ==
    {SizeLo(k) : k \in 1..UMM_NUMBLOCKS} \cup {SizeHi(k) : k \in 1..UMM_NUMBLOCKS}
       \cup {SizeLo(U16 + k) : k \in 0..MaxBlocks}

SizeMalloc == \E size \in AnySizes : Malloc(size)
SizeRealloc == \E ptr \in live : \E size \in AnySizes : Realloc(ptr, size)

\* one caller that asks for any size; where a call has left a heap without
\* the structure the loops of the code rely on, no further call is made
SizeNext ==
    /\ calls < MaxSizeCalls
    /\ calls' = calls + 1
    /\ Initialised(umm_heap) => HeapOK(umm_heap)
    /\ (SizeMalloc \/ SizeRealloc \/ DoFree \/ DoInfo)
    /\ UNCHANGED <<stack, owned, lock, depth>>

SizeSpec == Init /\ [][SizeNext]_vars

\* ------------------------------------------------------------------ claims
Min(a, b) == IF a <= b THEN a ELSE b
\* the words that hold the first n bytes of a payload
PrefixWords(n) == 0..(((n + 1) \div 2) - 1)

\* the last call was a realloc of a block the caller holds to a size > 0
LastResize ==
    last.op = "realloc" /\ last.ptr # NULL /\ last.size > 0
LastResizeFailed == LastResize /\ last.ret = NULL

C3_FailedReallocKeepsBlock ==
    LastResizeFailed =>
        LET c == BlockOf(last.ptr)
            after == umm_free(umm_heap, last.ptr)
        IN /\ last.ptr \in live
           /\ c \in UsedBlocks(umm_heap)
           /\ \A i \in PayloadWords(last.heap, c) : umm_heap[i] = last.heap[i]
           /\ c \notin FreeListCells(umm_heap)
           /\ HeapOK(after)
           /\ \E f \in FreeFlagged(after) : c \in CellRange(after, f)
           /\ Counts(after).usedEntries = Counts(umm_heap).usedEntries - 1

\* C3 witness: a realloc failed on a block whose payload held the caller's
\* data
C3_Witness ==
    /\ LastResizeFailed
    /\ \A i \in PayloadWords(last.heap, BlockOf(last.ptr)) :
          last.heap[i] = DataWord(i - NFidx(BlockOf(last.ptr)))


\* the free blocks of a heap with their spans
FreeSpans(h) == {<<f, Span(h, f)>> : f \in FreeFlagged(h)}
\* a sequence without the element x
Without(seq, x) == LET Keep(y) == y # x IN SelectSeq(seq, Keep)
\* the physical successor, before the call, of the block last resized
LastSucc == BlockNo(UMM_NBLOCK(last.heap, BlockOf(last.ptr)))

\* C4 as claimed: when realloc(p, n), n > 0, returns NULL, the span of the
\* block at p, the free blocks and their spans, the free list and the six
\* counts of the walker are what they were before the call.
C4_FailedReallocChangesNothing ==
    LastResizeFailed =>
        /\ Span(umm_heap, BlockOf(last.ptr)) = Span(last.heap, BlockOf(last.ptr))
        /\ FreeSpans(umm_heap) = FreeSpans(last.heap)
        /\ FreeList(umm_heap) = FreeList(last.heap)
        /\ Counts(umm_heap) = Counts(last.heap)

\* C4 amended: when realloc(p, n), n > 0, returns NULL, the block at p is
\* still a used block beginning at the same cell; if its physical successor
\* was not a free block the heap is as it was before the call; if it was, the
\* block has absorbed exactly that successor: its span has grown by the
\* successor's span, the successor has left the free list, whose order is
\* otherwise kept, every other free block is as before, and the counts differ
\* by that one entry (one free entry less, its cells counted as used).
C4_FailedReallocAbsorbsSuccessor ==
    LastResizeFailed =>
        LET c == BlockOf(last.ptr)
            n == LastSucc
            before == Counts(last.heap)
            after == Counts(umm_heap)
        IN /\ c \in UsedBlocks(umm_heap)
           /\ IF n \in FreeFlagged(last.heap)
              THEN /\ Span(umm_heap, c) = Span(last.heap, c) + Span(last.heap, n)
                   /\ FreeSpans(umm_heap) = FreeSpans(last.heap) \ {<<n, Span(last.heap, n)>>}
                   /\ FreeList(umm_heap) = Without(FreeList(last.heap), n)
                   /\ after.usedEntries = before.usedEntries
                   /\ after.freeEntries = before.freeEntries - 1
                   /\ after.totalEntries = before.totalEntries - 1
                   /\ after.usedBlocks = before.usedBlocks + Span(last.heap, n)
                   /\ after.freeBlocks = before.freeBlocks - Span(last.heap, n)
                   /\ after.totalBlocks = before.totalBlocks
              ELSE umm_heap = last.heap

\* C4 witness: a realloc failed on a block whose successor was a free block
C4_Witness == LastResizeFailed /\ LastSucc \in FreeFlagged(last.heap)

\* no free block holds `blocks` cells and the end of the heap has no room
NoRoom(h, blocks) ==
    /\ \A f \in FreeFlagged(h) : Span(h, f) < blocks
    /\ UMM_NUMBLOCKS <= EndBlock(h) + blocks + 1

LastServedFromFreeBlock ==
    \E f \in FreeFlagged(last.heap) : BlockOf(last.ret) \in CellRange(last.heap, f)

\* the heap after free(p), p the pointer the last malloc returned, is
\* equivalent to the heap before that malloc
RoundTripRestores ==
    LET back == umm_free(umm_heap, last.ret)
    IN /\ Counts(back) = Counts(last.heap)
       /\ LargestFree(back) = LargestFree(last.heap)

LastFreedOnlyBlock ==
    last.op = "free" /\ last.ptr # NULL /\ last.live = {last.ptr}

\* the runs of free cells: the free blocks and the end of the heap
FreeRegions(h) == {CellRange(h, f) : f \in FreeFlagged(h)} \cup {EndRange(h)}

\* C7 as claimed: when free releases the only block held, the heap holds
\* exactly one free block, spanning all cells 1..UMM_NUMBLOCKS-1 (the freed
\* cells merged with the end of the heap).
C7_OneFreeBlockSpansAll ==
    LastFreedOnlyBlock => FreeRegions(umm_heap) = {1..(UMM_NUMBLOCKS - 1)}

\* C7 amended: when free releases the only block held, the heap holds no
\* used block and exactly one free block on the physical chain; it begins at
\* cell 1 and ends where the block at the end of the heap begins.  That last
\* block keeps its index and is not merged: the free list holds the two, and
\* together they cover cells 1..UMM_NUMBLOCKS-1.
C7_OneFreeBlockBelowEnd ==
    LastFreedOnlyBlock =>
        /\ UsedBlocks(umm_heap) = {}
        /\ FreeFlagged(umm_heap) = {1}
        /\ BlockNo(UMM_NBLOCK(umm_heap, 1)) = EndBlock(umm_heap)
        /\ EndBlock(umm_heap) = EndBlock(last.heap)
        /\ FreeList(umm_heap) = <<1, EndBlock(umm_heap)>>
        /\ Counts(umm_heap).freeEntries = 1
        /\ Counts(umm_heap).freeBlocks = UMM_NUMBLOCKS - 1

\* C7 witness: the only block held was freed next to free blocks on both
\* sides
C7_Witness ==
    /\ LastFreedOnlyBlock
    /\ Cardinality(FreeFlagged(last.heap)) = 2

\* C8: once every pointer returned has been freed, the walker reports
\* usedEntries = 0, usedBlocks = 0 and freeBlocks = UMM_NUMBLOCKS - 1.
C8_NoLeaks ==
    (live = {} /\ last.op = "info" /\ last.ptr = NULL) =>
        /\ heapInfo.usedEntries = 0
        /\ heapInfo.usedBlocks = 0
        /\ heapInfo.freeBlocks = UMM_NUMBLOCKS - 1

\* the same on a heap that a first allocation has initialised
NoLeaksOnceInitialised ==
    (live = {} /\ Initialised(umm_heap)) =>
        /\ Counts(umm_heap).usedEntries = 0
        /\ Counts(umm_heap).usedBlocks = 0
        /\ Counts(umm_heap).freeBlocks = UMM_NUMBLOCKS - 1

\* C9: realloc(p, 0) returns NULL and leaves the heap as free(p) does;
\* realloc(NULL, n) returns what malloc(n) returns and leaves the heap as
\* malloc(n) does (realloc(NULL, 0) returns NULL).
C9_ReallocDegenerate ==
    /\ (last.op = "realloc" /\ last.ptr # NULL /\ last.size = 0) =>
          /\ last.ret = NULL
          /\ umm_heap = umm_free(last.heap, last.ptr)
          /\ live = last.live \ {last.ptr}
    /\ (last.op = "realloc" /\ last.ptr = NULL) =>
          /\ last.ret = umm_malloc(last.heap, last.size).ptr
          /\ umm_heap = umm_malloc(last.heap, last.size).heap
          /\ (last.size = 0 => last.ret = NULL)

\* C9 witness: realloc(p, 0) released a block that had a free neighbour
C9_Witness ==
    /\ last.op = "realloc"
    /\ last.ptr # NULL
    /\ last.size = 0
    /\ FreeFlagged(last.heap) # {}
    /\ Cardinality(FreeFlagged(umm_heap)) = Cardinality(FreeFlagged(last.heap))

\* C10: realloc(p, n), n > 0, with the cell count of n equal to the span of
\* the block at p returns p and changes no word of the heap.
C10_SameSizeNoOp ==
    (LastResize /\ umm_blocks(last.size) = Span(last.heap, BlockOf(last.ptr))) =>
        /\ last.ret = last.ptr
        /\ umm_heap = last.heap
        /\ live = last.live

\* C10 witness: a same-size realloc of a block with a free successor and a
\* free predecessor
C10_Witness ==
    /\ LastResize
    /\ umm_blocks(last.size) = Span(last.heap, BlockOf(last.ptr))
    /\ LastSucc \in FreeFlagged(last.heap)
    /\ UMM_PBLOCK(last.heap, BlockOf(last.ptr)) \in FreeFlagged(last.heap)

\* the step of task t is the return of its innermost call, with value v
Returned(t, v) ==
    IF Len(stack[t]) = 1
    THEN stack'[t] = <<[stack[t][1] EXCEPT !.pc = "done", !.ret = v]>>
    ELSE /\ Len(stack'[t]) = Len(stack[t]) - 1
         /\ stack'[t][Len(stack'[t])].got = v

\* task t is about to run umm_malloc(0) or umm_free(NULL)
NullOrZeroCall(t) ==
    \/ At(t, "malloc", "start") /\ Top(t).size = 0
    \/ At(t, "free", "start") /\ Top(t).ptr = NULL

\* C11: umm_malloc(0) returns NULL and umm_free(NULL) returns, in one step
\* that enters no critical section and changes no word of the heap (so a
\* heap that is all zero stays all zero)
C11_NullZeroInputs ==
    [][\A t \in Tasks :
          (NullOrZeroCall(t) /\ stack'[t] # stack[t]) =>
             /\ Returned(t, NULL)
             /\ umm_heap' = umm_heap
             /\ lock' = lock /\ depth' = depth]_vars

\* one task has returned from umm_malloc(0), the other from umm_free(NULL),
\* nobody has entered the critical section and the heap is still all zero
C11_Witness ==
    /\ Idle(1) /\ stack[1] # <<>>
    /\ Top(1).fn = "malloc" /\ Top(1).size = 0 /\ Top(1).ret = NULL
    /\ Idle(2) /\ stack[2] # <<>>
    /\ Top(2).fn = "free" /\ Top(2).arg = NULL
    /\ \A i \in Words : umm_heap[i] = 0
    /\ lock = NoTask /\ depth = [t \in Tasks |-> 0]

\* the pointers returned so far and not given back, and the pointer the last
\* umm_malloc or umm_realloc returned
ReturnedPointers ==
    live \cup (IF last.op \in {"malloc", "realloc"} THEN {last.ret} \ {NULL} ELSE {})

\* C12 (as the code has it): every pointer umm_malloc or umm_realloc returns
\* is the address of the body of a cell c >= 1: its offset from the heap base
\* is BlockBytes * c + HeaderBytes, a multiple of the header size 4
C12_BodyAligned ==
    \A p \in ReturnedPointers :
       /\ p % BlockBytes = HeaderBytes
       /\ p % HeaderBytes = 0
       /\ p \div BlockBytes \in Cells \ {0}

\* C12 (as stated): the offset of every returned pointer is a multiple of
\* the cell size
C12_BlockAligned == \A p \in ReturnedPointers : p % BlockBytes = 0

\* C12 witness: two blocks are held, the second one returned by a realloc
\* that moved it
C12_Witness ==
    /\ LastResize
    /\ last.ret \notin {NULL, last.ptr}
    /\ Cardinality(live) >= 2
    /\ last.ret \in live

\* the last call was umm_malloc with a size > 0 on a heap that was all zero
LastFirstMalloc ==
    /\ last.op = "malloc" /\ last.size > 0
    /\ last.heap = [i \in Words |-> 0]

LargestFirstMalloc ==
    LastFirstMalloc /\ last.ret # NULL /\ umm_blocks(last.size) + 2 = UMM_NUMBLOCKS

C14_WalkerUntouched ==
    (last.op = "info" /\ last.ptr = NULL /\ umm_heap = [i \in Words |-> 0]) =>
       /\ last.ret = NULL
       /\ heapInfo.totalEntries = 0
       /\ heapInfo.usedBlocks = 0
       /\ heapInfo.freeBlocks = UMM_NUMBLOCKS - 1

\* C15: no task executes UMM_CRITICAL_ENTRY while it is inside the critical
\* section: the entries of a task not yet matched by an exit are at most one
C15_NoNestedEntry == \A t \in Tasks : depth[t] <= 1

\* task t is between the first entry of a public function and its last exit
InOperation(t) == depth[t] > 0

\* no two tasks are inside a public function's critical section at once
OneAtATime == \A t, u \in Tasks : (InOperation(t) /\ InOperation(u)) => t = u

\* C16: a task holds the lock from the entry of a public function to its
\* last exit, so the operations of two tasks never overlap
C16_Serialized ==
    /\ \A t \in Tasks : InOperation(t) => lock = t
    /\ OneAtATime

\* the number of times the while loop of umm_malloc runs from cell cf
\* (lines 890-912), counted up to fuel; UMM_NUMBLOCKS if it has not ended then
RECURSIVE ScanSteps(_, _, _)
ScanSteps(h, cf, fuel) ==
    IF cf \notin Cells THEN UMM_NUMBLOCKS
    ELSE IF UMM_NFREE(h, cf) = 0 THEN 0
    ELSE IF fuel = 0 THEN UMM_NUMBLOCKS
    ELSE 1 + ScanSteps(h, UMM_NFREE(h, cf), fuel - 1)

\* the same for the while loop of umm_info (lines 617-659)
RECURSIVE WalkSteps(_, _, _)
WalkSteps(h, blockNo, fuel) ==
    IF blockNo \notin Cells THEN UMM_NUMBLOCKS
    ELSE IF BlockNo(UMM_NBLOCK(h, blockNo)) = 0 THEN 0
    ELSE IF fuel = 0 THEN UMM_NUMBLOCKS
    ELSE 1 + WalkSteps(h, BlockNo(UMM_NBLOCK(h, blockNo)), fuel - 1)

FreeHeaders(h) == {UMM_BLOCK(c) : c \in FreeFlagged(h)}

\* C18: umm_info(ptr, force) returns ptr if ptr is the address of the header
\* of a free block and NULL otherwise, and changes no word of the heap
C18_InfoFindsFreeBlock ==
    last.op = "info" =>
       /\ last.ret = (IF last.ptr \in FreeHeaders(last.heap) THEN last.ptr ELSE NULL)
       /\ umm_heap = last.heap

\* C18 witness: umm_info found the second of two free blocks, in a heap with
\* a used block of more than one cell
C18_Witness ==
    /\ last.op = "info" /\ last.ret = last.ptr /\ last.ptr # NULL
    /\ \E c \in FreeFlagged(umm_heap) : UMM_BLOCK(c) < last.ptr
    /\ \E c \in UsedBlocks(umm_heap) : Span(umm_heap, c) > 1

\* the number of cells a request of size bytes needs, as an integer of any
\* width
BlocksNeeded(size) ==
    IF size <= BodyBytes THEN 1
    ELSE 2 + ((size - 1 - BodyBytes) \div BlockBytes)

\* C19: a block umm_malloc or umm_realloc returns for a request of size > 0
\* has room for size bytes (its cells less the header), and a request that
\* needs more cells than the heap has returns NULL, whatever the size
C19_CapacityCoversSize ==
    (last.op \in {"malloc", "realloc"} /\ last.size > 0) =>
       /\ last.ret # NULL =>
             Span(umm_heap, BlockOf(last.ret)) * BlockBytes - HeaderBytes >= last.size
       /\ BlocksNeeded(last.size) >= UMM_NUMBLOCKS => last.ret = NULL

WalkCells(h) == {0} \cup PhysBlocks(h)

RECURSIVE BackFrom(_, _, _)
BackFrom(h, c, fuel) ==
    IF fuel = 0 \/ c = 0 \/ c \notin Cells THEN <<>>
    ELSE <<c>> \o BackFrom(h, UMM_PFREE(h, c), fuel - 1)

Reverse(seq) == [i \in 1..Len(seq) |-> seq[Len(seq) + 1 - i]]

\* the free list of heap h has no cycle, its forward walk ends at a cell
\* with NF = 0 and the walk back from that cell along PF meets the same
\* cells and ends at a cell with PF = 0
ListEndsBothWays(h) ==
    \E fl \in {FreeList(h)} :
       /\ Len(fl) < UMM_NUMBLOCKS
       /\ \A i, j \in 1..Len(fl) : i # j => fl[i] # fl[j]
       /\ fl # <<>> =>
             /\ UMM_NFREE(h, fl[Len(fl)]) = 0
             /\ BackFrom(h, fl[Len(fl)], UMM_NUMBLOCKS) = Reverse(fl)
             /\ UMM_PFREE(h, fl[1]) = 0
       /\ fl = <<>> => UMM_NFREE(h, 0) = 0

RECURSIVE SumSpans(_, _)
SumSpans(h, S) ==
    IF S = {} THEN 0
    ELSE LET c == CHOOSE x \in S : TRUE
         IN Span(h, c) + SumSpans(h, S \ {c})

GuardCells == MaxBlocks + 1
Pad(h) ==
    [i \in 1..(Len(h) + 4 * GuardCells) |-> IF i <= Len(h) THEN h[i] ELSE U16]

\* the heap the last call leaves when it runs on heap h
LastCallOn(h) ==
    CASE last.op = "malloc" -> umm_malloc(h, last.size).heap
      [] last.op = "free" -> umm_free(h, last.ptr)
      [] last.op = "realloc" -> umm_realloc(h, last.ptr, last.size).heap
      [] OTHER -> h

Entered(t) ==
    {i \in 1..Len(stack[t]) : stack[t][i].pc \in {"body", "grown", "exit"}}

\* C28: the entries of a task that no exit has matched are those of its calls
\* in progress that are between their entry and their exit; when a call
\* returns, by whatever path, its exits are as many as its entries, and a
\* task with no call in progress has none unmatched and is not in the
\* critical section.
C28_EntriesMatched ==
    \A t \in Tasks :
       /\ depth[t] = Cardinality(Entered(t))
       /\ Idle(t) => depth[t] = 0 /\ lock # t

\* C28 witness: umm_realloc has returned a block it moved, after its nested
\* calls of umm_malloc and umm_free, and the task has no entry unmatched
C28_Witness ==
    \E t \in Tasks :
       /\ At(t, "realloc", "done")
       /\ Top(t).ret \notin {NULL, Top(t).arg}
       /\ Top(t).arg # NULL
       /\ depth[t] = 0

\* the last call was umm_malloc(size) with size > 0 (umm_realloc(NULL, size)
\* is that call)
LastAlloc ==
    /\ last.size > 0
    /\ last.op = "malloc" \/ (last.op = "realloc" /\ last.ptr = NULL)

\* the free blocks of h that hold `blocks` cells, and among them the one of
\* the smallest span, the earliest on the free list among equals
FitBlocks(h, blocks) == {c \in FreeFlagged(h) : Span(h, c) >= blocks}
BestFit(h, blocks) ==
    LET fl == FreeList(h)
        fit == {i \in 1..Len(fl) : fl[i] \in FitBlocks(h, blocks)}
    IN fl[CHOOSE i \in fit :
             \A j \in fit : \/ Span(h, fl[i]) < Span(h, fl[j])
                            \/ Span(h, fl[i]) = Span(h, fl[j]) /\ i <= j]

\* C29: when a free block holds the cells umm_malloc asks for, the block
\* returned is cut from the free block of the smallest such span, the
\* earliest on the free list among equals (its last cells; the whole block
\* when the fit is exact), and the end of the heap stays where it was; the
\* block is taken at the end of the heap only when no free block fits.
C29_BestFit ==
    LastAlloc =>
       \E blocks \in {umm_blocks(last.size)} :
          IF FitBlocks(last.heap, blocks) # {}
          THEN \E b \in {BestFit(last.heap, blocks)} :
                  /\ last.ret # NULL
                  /\ BlockOf(last.ret) \in CellRange(last.heap, b)
                  /\ BlockOf(last.ret) + blocks = b + Span(last.heap, b)
                  /\ EndBlock(umm_heap) = EndBlock(last.heap)
          ELSE \/ last.ret = NULL
               \/ /\ BlockOf(last.ret) =
                        (IF Initialised(last.heap) THEN EndBlock(last.heap) ELSE 1)
                  /\ EndBlock(umm_heap) = BlockOf(last.ret) + blocks

\* C29 witness: two free blocks fit, the first on the free list is the
\* larger, and umm_malloc has taken the smaller
C29_Witness ==
    /\ LastAlloc
    /\ Cardinality(FitBlocks(last.heap, umm_blocks(last.size))) >= 2
    /\ BestFit(last.heap, umm_blocks(last.size)) # FreeList(last.heap)[1]
    /\ FreeList(last.heap)[1] \in FitBlocks(last.heap, umm_blocks(last.size))
    /\ BlockOf(last.ret) = BestFit(last.heap, umm_blocks(last.size))

LastPartialFit ==
    /\ LastAlloc
    /\ FitBlocks(last.heap, umm_blocks(last.size)) # {}
    /\ Span(last.heap, BestFit(last.heap, umm_blocks(last.size))) > umm_blocks(last.size)

\* the words of the heap in which h and g differ
ChangedWords(h, g) == {i \in Words : h[i] # g[i]}

\* C31: when umm_malloc takes a free block cf of more cells than it asks
\* for, the block returned is the last `blocks` cells of cf, used; cf keeps
\* its index and its free flag with the span that is left; the free list is
\* the same sequence of cells and the NF and PF words of every cell are
\* unchanged (the only words written are NB(cf), NB and PB of the block
\* returned and PB of the block after it); the structure of the heap and of
\* the free list holds afterwards.
C31_PartialFitKeepsLinks ==
    LastPartialFit =>
       \E blocks \in {umm_blocks(last.size)} :
       \E cf \in {BestFit(last.heap, umm_blocks(last.size))} :
       \E rest \in {Span(last.heap, cf) - blocks} :
          /\ last.ret = UMM_DATA(cf + rest)
          /\ UMM_NBLOCK(umm_heap, cf + rest) = BlockNo(UMM_NBLOCK(last.heap, cf))
          /\ UMM_PBLOCK(umm_heap, cf + rest) = cf
          /\ UMM_NBLOCK(umm_heap, cf) = cf + rest + UMM_FREELIST_MASK
          /\ FreeList(umm_heap) = FreeList(last.heap)
          /\ \A c \in Cells :
                /\ UMM_NFREE(umm_heap, c) = UMM_NFREE(last.heap, c)
                /\ UMM_PFREE(umm_heap, c) = UMM_PFREE(last.heap, c)
          /\ ChangedWords(umm_heap, last.heap) \subseteq
                {NBidx(cf), NBidx(cf + rest), PBidx(cf + rest),
                 PBidx(BlockNo(UMM_NBLOCK(last.heap, cf)))}
          /\ HeapOK(umm_heap)

\* C31 witness: the second of two allocations cut from one free block: the
\* block after cf is a block of one cell the caller holds, and cf, of two
\* cells before the call, is left with one
C31_Witness ==
    /\ LastPartialFit
    /\ \E cf \in {BestFit(last.heap, umm_blocks(last.size))} :
          /\ Span(last.heap, cf) = 2
          /\ umm_blocks(last.size) = 1
          /\ Span(last.heap, cf + 2) = 1
          /\ UMM_DATA(cf + 2) \in last.live
          /\ Span(umm_heap, cf) = 1
          /\ IsFreeBit(UMM_NBLOCK(umm_heap, cf))

\* the last call was a umm_malloc served by a free block of exactly the
\* cells it asked for
LastExactFit ==
    /\ LastAlloc
    /\ FitBlocks(last.heap, umm_blocks(last.size)) # {}
    /\ Span(last.heap, BestFit(last.heap, umm_blocks(last.size))) = umm_blocks(last.size)

\* C32: when umm_malloc takes a free block cf of exactly the cells it asks
\* for, it returns the body of cf, cf keeps its span and loses its free flag,
\* the free list is the list before without cf, the blocks before and after
\* cf on the list are linked to each other, the walker counts one free entry
\* less and one used entry more with the same number of entries, and every
\* block of the physical chain has at least one cell.
C32_ExactFitUnlinks ==
    LastExactFit =>
       \E cf \in {BestFit(last.heap, umm_blocks(last.size))} :
          /\ last.ret = UMM_DATA(cf)
          /\ UMM_NBLOCK(umm_heap, cf) = BlockNo(UMM_NBLOCK(last.heap, cf))
          /\ FreeList(umm_heap) = Without(FreeList(last.heap), cf)
          /\ cf \notin FreeListCells(umm_heap)
          /\ UMM_NFREE(umm_heap, UMM_PFREE(last.heap, cf)) = UMM_NFREE(last.heap, cf)
          /\ UMM_PFREE(umm_heap, UMM_NFREE(last.heap, cf)) = UMM_PFREE(last.heap, cf)
          /\ PhysBlocks(umm_heap) = PhysBlocks(last.heap)
          /\ \A c \in PhysBlocks(umm_heap) : Span(umm_heap, c) >= 1
          /\ HeapOK(umm_heap)
          /\ \E before \in {Counts(last.heap)} :
             \E after \in {Counts(umm_heap)} :
                /\ after.freeEntries = before.freeEntries - 1
                /\ after.usedEntries = before.usedEntries + 1
                /\ after.totalEntries = before.totalEntries

\* C32 witness: the block taken was the only free block of the heap: the
\* free list is left with the block at the end of the heap alone
C32_Witness ==
    /\ LastExactFit
    /\ Cardinality(FreeFlagged(last.heap)) = 1
    /\ FreeFlagged(umm_heap) = {}
    /\ FreeList(umm_heap) = <<EndBlock(umm_heap)>>
    /\ Counts(umm_heap).freeEntries = 0

\* the cells that begin a block: cell 0, the blocks of the physical chain and
\* the cell at which the walk stops
BlockStarts(h) == {0} \cup PhysBlocks(h) \cup {EndBlock(h)}

\* where the while loop of umm_malloc leaves cf and bestSize on heap h for a
\* request of `blocks` cells
ScanEnd(h, blocks) ==
    ScanFreeList(h, UMM_NFREE(h, 0), UMM_NFREE(h, 0), BestSizeInit, 0, blocks)

LastFree ==
    /\ last.ptr # NULL
    /\ last.op = "free" \/ (last.op = "realloc" /\ last.size = 0)

\* the block freed, the block after it and the block before it in the heap
\* before the call, and whether these were free
Freed == BlockOf(last.ptr)
FreedSucc == BlockNo(UMM_NBLOCK(last.heap, Freed))
FreedPred == UMM_PBLOCK(last.heap, Freed)
SuccWasFree == IsFreeBit(UMM_NBLOCK(last.heap, FreedSucc))
PredWasFree == IsFreeBit(UMM_NBLOCK(last.heap, FreedPred))

\* the free list of the heap before the call once umm_assimilate_up has
\* taken a free successor of the freed block off it
ListAfterUp ==
    IF SuccWasFree THEN Without(FreeList(last.heap), FreedSucc)
    ELSE FreeList(last.heap)

\* C34 as stated, with the head of the list before the call as the former
\* head: after umm_free(p) with the block before p not free, NF(0) = c,
\* PF(c) = 0, NF(c) is the head the list had before the call and PF of that
\* head is c.
C34_LinkedBeforeOldHead ==
    (LastFree /\ ~PredWasFree) =>
       /\ UMM_NFREE(umm_heap, 0) = Freed
       /\ UMM_PFREE(umm_heap, Freed) = 0
       /\ UMM_NFREE(umm_heap, Freed) = UMM_NFREE(last.heap, 0)
       /\ UMM_PFREE(umm_heap, UMM_NFREE(last.heap, 0)) = Freed

\* C34: umm_free(p) first merges a free block after c into c and takes it
\* off the free list. Then, when the block before c is not free, c becomes
\* the head of the list: NF(0) = c, PF(c) = 0, NF(c) is the head the list
\* has once the merged block is off it, PF of that head is c, and the other
\* elements keep their order; when the block before c is free, c is merged
\* into it, no element is put on the list, and the list is the one before
\* without the merged successor, the block before c in its place.
C34_FreeListPosition ==
    LastFree =>
       \E others \in {ListAfterUp} :
       \E fl \in {FreeList(umm_heap)} :
          IF ~PredWasFree
          THEN /\ Len(fl) = Len(others) + 1
               /\ fl[1] = Freed
               /\ \A i \in 1..Len(others) : fl[i + 1] = others[i]
               /\ UMM_NFREE(umm_heap, 0) = Freed
               /\ UMM_PFREE(umm_heap, Freed) = 0
               /\ UMM_NFREE(umm_heap, Freed) = others[1]
               /\ UMM_PFREE(umm_heap, others[1]) = Freed
               /\ IsFreeBit(UMM_NBLOCK(umm_heap, Freed))
          ELSE /\ Len(fl) = Len(others)
               /\ \A i \in 1..Len(others) : fl[i] = others[i]
               /\ FreedPred \in FreeListCells(umm_heap)
               /\ Freed \notin PhysBlocks(umm_heap)
               /\ IsFreeBit(UMM_NBLOCK(umm_heap, FreedPred))
               /\ BlockNo(UMM_NBLOCK(umm_heap, FreedPred)) =
                     (IF SuccWasFree THEN BlockNo(UMM_NBLOCK(last.heap, FreedSucc))
                      ELSE FreedSucc)

\* C34 witness: the block after the freed block was free and was the head of
\* the list; the freed block is the head now and points past it
C34_Witness ==
    /\ LastFree
    /\ ~PredWasFree
    /\ SuccWasFree
    /\ UMM_NFREE(last.heap, 0) = FreedSucc
    /\ Len(FreeList(last.heap)) >= 3
    /\ UMM_NFREE(umm_heap, 0) = Freed
    /\ UMM_NFREE(umm_heap, Freed) = FreeList(last.heap)[2]

\* C34 witness of the other case: the block before the freed block was free
\* and not the head of the list, and it has taken the freed block in
C34_WitnessMerged ==
    /\ LastFree
    /\ PredWasFree
    /\ UMM_NFREE(last.heap, 0) # FreedPred
    /\ FreeList(umm_heap) = FreeList(last.heap)

\* for the last umm_realloc(p, n): the block of p, the count asked for, the
\* block before it, the cell at which the block ends once umm_assimilate_up
\* has merged a free block after it, and the test of the downward merge
Resized == BlockOf(last.ptr)
ResizedTo == umm_blocks(last.size)
ResizedPred == UMM_PBLOCK(last.heap, Resized)
ResizedEnd ==
    Bind(BlockNo(UMM_NBLOCK(last.heap, Resized)), LAMBDA s :
    IF IsFreeBit(UMM_NBLOCK(last.heap, s)) THEN BlockNo(UMM_NBLOCK(last.heap, s)) ELSE s)
MergesDown ==
    /\ IsFreeBit(UMM_NBLOCK(last.heap, ResizedPred))
    /\ ResizedEnd - ResizedPred >= ResizedTo

\* the last call was a umm_realloc that got past the same-size return
LastResizeStep == LastResize /\ Span(last.heap, Resized) # ResizedTo

C35_WitnessNoMerge ==
    /\ LastResizeStep
    /\ IsFreeBit(UMM_NBLOCK(last.heap, ResizedPred))
    /\ ~MergesDown
    /\ last.ret = NULL

\* the last call was a umm_malloc or a umm_realloc that returned a block
LastSuccess == last.op \in {"malloc", "realloc"} /\ last.ret # NULL

C36_WitnessShrink ==
    /\ LastResize
    /\ last.ret = last.ptr
    /\ Span(last.heap, Resized) = 3
    /\ Span(umm_heap, Resized) = 1
    /\ last.size <= BodyBytes

\* C36 witness of the moving path
C36_WitnessMove ==
    /\ LastResizeStep
    /\ ~MergesDown
    /\ last.ret \notin {NULL, last.ptr}
    /\ Span(umm_heap, BlockOf(last.ret)) = ResizedTo

\* the sizes n > 0 whose count is below the span of the block at p in h
ShrinkSizes(h, p) == {n \in Sizes \ {0} : umm_blocks(n) < Span(h, BlockOf(p))}

\* no free block and no room at the end of the heap for a block of one cell:
\* every umm_malloc(size > 0) fails
FullHeap(h) ==
    /\ Initialised(h)
    /\ FreeFlagged(h) = {}
    /\ UMM_NUMBLOCKS <= EndBlock(h) + 1 + 1

\* C37: in every reachable state, for every block p the caller holds and
\* every size n > 0 whose count is below the span of p, umm_realloc(p, n)
\* returns a pointer, and the block it has after the merges is larger than
\* the count, so that the case that calls umm_malloc is not entered; the
\* last call, when it was such a call, has returned a pointer the caller
\* holds.
C37_ShrinkNeverFails ==
    /\ \A p \in live :
          \A n \in ShrinkSizes(umm_heap, p) :
             /\ umm_realloc(umm_heap, p, n).ptr # NULL
             /\ \E m \in {ReallocMerge(umm_heap, p, n)} :
                   Trunc16(UMM_NBLOCK(m.heap, m.c) - m.c) > umm_blocks(n)
    /\ (LastResize /\ last.size \in ShrinkSizes(last.heap, last.ptr)) =>
          /\ last.ret # NULL
          /\ last.ret \in live
          /\ Span(umm_heap, BlockOf(last.ret)) = ResizedTo

\* C37 witness: the heap was full, and a block of three cells has been cut
\* to one
C37_Witness ==
    /\ LastResize
    /\ FullHeap(last.heap)
    /\ last.size \in ShrinkSizes(last.heap, last.ptr)
    /\ Span(last.heap, Resized) = 3
    /\ last.ret = last.ptr
    /\ Span(umm_heap, Resized) = 1
    /\ ~FullHeap(umm_heap)

\* ------------------------------------------------------ umm_blocks on its own
\* the caller has a size n in 1..MaxSize at hand (last.size) and calls
\* umm_blocks(n); the count returned is kept in last.ret
BlocksInit ==
    /\ umm_heap = [i \in Words |-> 0]
    /\ heapInfo = ZeroInfo
    /\ live = {}
    /\ \E n \in 1..MaxSize :
          last = [op |-> "none", ptr |-> NULL, size |-> n, ret |-> NULL,
                  heap |-> [i \in Words |-> 0], live |-> {}]
    /\ calls = 0
    /\ stack = [t \in Tasks |-> <<>>]
    /\ owned = [t \in Tasks |-> {}]
    /\ lock = NoTask
    /\ depth = [t \in Tasks |-> 0]

BlocksCall ==
    /\ last.op = "none"
    /\ last' = [last EXCEPT !.op = "umm_blocks", !.ret = umm_blocks(last.size)]
    /\ calls' = calls + 1
    /\ UNCHANGED <<umm_heap, heapInfo, live, stack, owned, lock, depth>>

BlocksSpec == BlocksInit /\ [][BlocksCall]_vars

\* the least q with q * b >= a, for a >= 0 and b > 0
CeilDiv(a, b) == CHOOSE q \in 0..a : q * b >= a /\ (q = 0 \/ (q - 1) * b < a)

\* C38: for every size n in 1..MaxSize, umm_blocks(n) is 1 when
\* n <= BodyBytes and ceil((n - BodyBytes) / BlockBytes) + 1 otherwise, which
\* is 2 + (n - 1 - BodyBytes) \div BlockBytes; it is at least 1, and
\* umm_blocks(n) * BlockBytes - HeaderBytes is at least n.
C38_BlocksForSize ==
    last.op = "umm_blocks" =>
       \E n \in {last.size} :
       \E count \in {last.ret} :
          /\ n <= BodyBytes => count = 1
          /\ n > BodyBytes =>
                /\ count = CeilDiv(n - BodyBytes, BlockBytes) + 1
                /\ count = 2 + ((n - 1 - BodyBytes) \div BlockBytes)
                /\ CeilDiv(n - BodyBytes, BlockBytes) + 1 =
                      2 + ((n - 1 - BodyBytes) \div BlockBytes)
          /\ count >= 1
          /\ count * BlockBytes - HeaderBytes >= n

\* C38 witness: a size that fills the bodies of two cells to the last byte,
\* where the division has no remainder; one byte more takes a third cell
C38_Witness ==
    /\ last.op = "umm_blocks"
    /\ last.size = BodyBytes + BlockBytes
    /\ last.ret = 2
    /\ umm_blocks(last.size + 1) = 3

\* the cells of the blocks the caller holds
LiveBlocks == {BlockOf(p) : p \in live}

=============================================================================
